---- MODULE Spec2Model ----
(***************************************************************************)
(* Model of fml-sdk's parseFML (src/src/parser.ts, lines 113-195): the     *)
(* recursive <include> expansion with its circular-dependency check, the   *)
(* find-replace-rescan loop and the Mustache interpolation.                *)
(*                                                                         *)
(* Text is a sequence of tokens.  A token is a pair <<kind, value>>:       *)
(*   <<"txt", c>>    a character, or an unbroken run, c of plain text      *)
(*                   ("$", "&", "'" and "`" are the characters             *)
(*                   String.prototype.replace reads in its replacement     *)
(*                   string)                                               *)
(*   <<"inc", s>>    <include src="s"/>                                    *)
(*   <<"open", s>>   <include src="s">                                     *)
(*   <<"close", "">> </include>                                            *)
(*   <<"var", n>>    {{ n }}                                               *)
(*   <<"tag", t>>    any other tag, <t> or </t> or <t/>                    *)
(* An absolute path is the sequence of its segments: <<"d","a">> is /d/a.  *)
(* The message extractor of lines 44-74 has a specification of its own,    *)
(* ExtractSpec; TwiceSpec lets the caller repeat a finished call.          *)
(***************************************************************************)
EXTENDS Integers, Sequences, FiniteSets, TLC

\* Longest text (in tokens) the model follows; a replacement that would
\* exceed it ends the run with status "cut".
MaxLen == 6

Txt(c) == <<"txt", c>>
Inc(s) == <<"inc", s>>
Open(s) == <<"open", s>>
Close == <<"close", "">>
Var(n) == <<"var", n>>
Tag(t) == <<"tag", t>>
Dollar == Txt("$")

----------------------------------------------------------------------------
(* Paths: node's path.resolve and path.dirname on segment sequences.       *)

\* A path as the program receives it: defined or undefined, absolute or
\* relative, and its segments.
Undefined == [def |-> FALSE, abs |-> FALSE, segs |-> <<>>]
AbsPath(segs) == [def |-> TRUE, abs |-> TRUE, segs |-> segs]
RelPath(segs) == [def |-> TRUE, abs |-> FALSE, segs |-> segs]

\* The src strings and root paths of the model, parsed into segments.
ParsePath(s) ==
    CASE s = "a" -> RelPath(<<"a">>)
      [] s = "b" -> RelPath(<<"b">>)
      [] s = "d/a" -> RelPath(<<"d", "a">>)
      [] s = "d/b" -> RelPath(<<"d", "b">>)
      [] s = "../a" -> RelPath(<<"..", "a">>)
      [] s = "../b" -> RelPath(<<"..", "b">>)
      [] s = "/a" -> AbsPath(<<"a">>)
      [] s = "/d/a" -> AbsPath(<<"d", "a">>)
      [] s = "/d/b" -> AbsPath(<<"d", "b">>)
      [] s = "/d" -> AbsPath(<<"d">>)
      [] s = "." -> RelPath(<<".">>)
      [] OTHER -> RelPath(<<s>>)

\* The process's working directory.
Cwd == <<"d">>

RECURSIVE NormalizeFrom(_, _)
NormalizeFrom(acc, segs) ==
    IF segs = <<>> THEN acc
    ELSE LET s == Head(segs) IN
         IF s = "." THEN NormalizeFrom(acc, Tail(segs))
         ELSE IF s = ".."
              THEN NormalizeFrom(IF acc = <<>> THEN acc ELSE SubSeq(acc, 1, Len(acc) - 1),
                                 Tail(segs))
              ELSE NormalizeFrom(Append(acc, s), Tail(segs))

Normalize(segs) == NormalizeFrom(<<>>, segs)

\* path.resolve(from, to): the arguments are taken from the right until an
\* absolute one is met, the working directory standing in when none is.
PathResolve(from, to) ==
    IF to.abs THEN Normalize(to.segs)
    ELSE IF from.abs THEN Normalize(from.segs \o to.segs)
         ELSE Normalize(Cwd \o from.segs \o to.segs)

\* path.dirname of an absolute path.
Dirname(p) == IF p = <<>> THEN <<>> ELSE SubSeq(p, 1, Len(p) - 1)

\* path.dirname(callerFile || '').
DirnameOf(f) ==
    IF ~f.def THEN RelPath(<<".">>)
    ELSE [def |-> TRUE, abs |-> f.abs, segs |-> Dirname(f.segs)]

----------------------------------------------------------------------------
(* The ordered Set of line 116: a duplicate-free sequence in insertion     *)
(* order.                                                                  *)

SetHas(set, p) == \E i \in 1..Len(set) : set[i] = p

SetAdd(set, p) == IF SetHas(set, p) THEN set ELSE Append(set, p)

SetDelete(set, p) == SelectSeq(set, LAMBDA q : q # p)

\* Mutant: the recursive call is given an empty Set.
SetCopyEmpty(set) == <<>>

\* new Set(_currentlyProcessingPaths), line 147.
SetCopy(set) == set

\* Mutant: the message leaves out the repeated path.
CyclePathWithoutRepeat(set, p) == set

\* Array.from(set).join(' -> ') + ' -> ' + absoluteFilePath, line 126.
CyclePath(set, p) == Append(set, p)

----------------------------------------------------------------------------
(* The include regex of line 136 and String.prototype.replace, line 148.   *)

IsClose(t) == t = Close

\* The last index of the match that starts at i, or 0 when none starts there.
\* src="([^"]+?)" needs a non-empty src; the paired form runs to the first
\* </include> after the opening tag.
MatchEnd(c, i) ==
    IF c[i][1] = "inc" /\ c[i][2] # "" THEN i
    ELSE IF c[i][1] = "open" /\ c[i][2] # ""
              /\ \E j \in (i + 1)..Len(c) : IsClose(c[j])
         THEN CHOOSE j \in (i + 1)..Len(c) :
                  /\ IsClose(c[j])
                  /\ \A k \in (i + 1)..(j - 1) : ~IsClose(c[k])
         ELSE 0

HasMatch(c) == \E i \in 1..Len(c) : MatchEnd(c, i) > 0

\* includeRegex.exec(currentContent): the leftmost match.
RegexExec(c) ==
    LET i == CHOOSE k \in 1..Len(c) :
                 MatchEnd(c, k) > 0 /\ \A l \in 1..(k - 1) : MatchEnd(c, l) = 0
    IN [index |-> i, tag |-> SubSeq(c, i, MatchEnd(c, i)), src |-> c[i][2]]

OccursAt(str, search, i) ==
    /\ i + Len(search) - 1 <= Len(str)
    /\ SubSeq(str, i, i + Len(search) - 1) = search

\* str.indexOf(search), 1-based; 0 when absent.
IndexOf(str, search) ==
    IF \E i \in 1..Len(str) : OccursAt(str, search, i)
    THEN CHOOSE i \in 1..Len(str) :
             OccursAt(str, search, i) /\ \A k \in 1..(i - 1) : ~OccursAt(str, search, k)
    ELSE 0

\* GetSubstitution for a string pattern (no captures): $$ is a dollar, $& the
\* matched text, $` the text before the match, $' the text after it.
RECURSIVE GetSubstitution(_, _, _, _)
GetSubstitution(matched, before, after, repl) ==
    IF repl = <<>> THEN <<>>
    ELSE IF Head(repl) = Dollar /\ Len(repl) >= 2
         THEN LET n == repl[2]
                  rest == SubSeq(repl, 3, Len(repl)) IN
              IF n = Dollar
              THEN <<Dollar>> \o GetSubstitution(matched, before, after, rest)
              ELSE IF n = Txt("&")
              THEN matched \o GetSubstitution(matched, before, after, rest)
              ELSE IF n = Txt("`")
              THEN before \o GetSubstitution(matched, before, after, rest)
              ELSE IF n = Txt("'")
              THEN after \o GetSubstitution(matched, before, after, rest)
              ELSE <<Dollar>> \o GetSubstitution(matched, before, after, Tail(repl))
         ELSE <<Head(repl)>> \o GetSubstitution(matched, before, after, Tail(repl))

\* currentContent.replace(includeTag, includedContent): the first occurrence
\* of the string includeTag, the replacement read as a replacement pattern.
StringReplace(str, search, repl) ==
    LET i == IndexOf(str, search) IN
    IF i = 0 THEN str
    ELSE LET before == SubSeq(str, 1, i - 1)
             after == SubSeq(str, i + Len(search), Len(str)) IN
         before \o GetSubstitution(search, before, after, repl) \o after

----------------------------------------------------------------------------
(* mustache.render(content, variables, {}, {escape: text => text}).        *)

\* A value of options.variables: a string, or an object given by its
\* fields, each a pair <<key, JSON literal of the field's value>>.
Str(text) == [type |-> "string", text |-> text, fields |-> <<>>]
Obj(fields) == [type |-> "object", text |-> <<>>, fields |-> fields]

\* Line 154: escape: (text) => text.
Escape(value) == value

\* What the render buffer receives for a value the escape function returned
\* as it was: the value's string conversion.
StringOf(value) ==
    IF value.type = "object" THEN <<Txt("[object Object]")>> ELSE value.text

\* Mutant: a placeholder whose name is not a key stays in the text.
RECURSIVE RenderKeepsMissing(_, _)
RenderKeepsMissing(c, variables) ==
    IF c = <<>> THEN <<>>
    ELSE LET t == Head(c) IN
         (IF t[1] = "var" /\ t[2] \in DOMAIN variables
          THEN StringOf(Escape(variables[t[2]]))
          ELSE <<t>>) \o RenderKeepsMissing(Tail(c), variables)

RECURSIVE Render(_, _)
Render(c, variables) ==
    IF c = <<>> THEN <<>>
    ELSE LET t == Head(c) IN
         (IF t[1] = "var"
          THEN (IF t[2] \in DOMAIN variables
                THEN StringOf(Escape(variables[t[2]]))
                ELSE <<>>)
          ELSE <<t>>) \o Render(Tail(c), variables)

\* Line 153: options?.variables && Object.keys(options.variables).length > 0.
VariablesGiven(options) == options.supplied /\ DOMAIN options.variables # {}

\* Mutant: the pass runs whatever the options are.
InterpolateAlways(c, options) == Render(c, options.variables)

\* Lines 152-155: the pass runs only for a non-empty variables object.
Interpolate(c, options) ==
    IF VariablesGiven(options) THEN Render(c, options.variables) ELSE c

----------------------------------------------------------------------------
(* The state: the file system and the root call's arguments (fixed during  *)
(* one resolution), the stack of parseFML activations, the error in        *)
(* flight, and the outcome of the root call.                               *)

VARIABLES
    fs,        \* absolute path -> [exists, text]
    env,       \* root call: callerFile, baseDir, relativePath, and
               \* options.variables (supplied or not, and the mapping)
    stack,     \* parseFML activations, the root call first
    err,       \* the exception being thrown, kind "none" when there is none
    status,    \* "running", "returned", "failed", or "cut" (MaxLen reached)
    result,    \* the string of the resolved promise
    visited,   \* history: the paths whose file has been read
    revisited, \* history: a file was read that had been read before
    rendered,  \* history: mustache.render has run
    prior,     \* the outcome of the caller's earlier call with the same
               \* arguments, and the Set object the last root call has left
    ext        \* the message extractor (lines 44-74): its document, its
               \* position and its result list

vars == <<fs, env, stack, err, status, result, visited, revisited, rendered,
          prior, ext>>

NoErr == [kind |-> "none", msg |-> <<>>, path |-> <<>>, depth |-> 0]

File(text) == [exists |-> TRUE, text |-> text]
NoFile == [exists |-> FALSE, text |-> <<>>]

PA == <<"a">>
PB == <<"b">>
PDA == <<"d", "a">>
PDB == <<"d", "b">>

\* The documents the model draws /a, /b, /d/a and /d/b from.
DocsA ==
    { File(<<Inc("b"), Txt("x"), Inc("d/a")>>),
      File(<<Inc("b"), Inc("b")>>),
      File(<<Open("d/a"), Txt("x"), Close, Var("n")>>),
      File(<<Txt("x"), Inc("/d/b")>>),
      File(<<Open("b"), Inc("d/b")>>) }

DocsB ==
    { File(<<Txt("y")>>),
      File(<<Inc("a")>>),
      File(<<Inc("d/b")>>),
      File(<<Dollar, Txt("&")>>),
      File(<<Var("n")>>),
      NoFile }

DocsDA ==
    { File(<<Inc("b")>>),
      File(<<Inc("../b"), Txt("x")>>),
      File(<<Inc("a")>>),
      File(<<Txt("x")>>) }

DocsDB ==
    { File(<<Txt("y"), Var("n")>>),
      File(<<Dollar, Dollar>>),
      File(<<Inc("../a")>>),
      File(<<Dollar, Txt("'")>>),
      File(<<Close>>),
      NoFile }

\* Documents with other tags, and with include tags that have no src value.
DocsA2 ==
    { File(<<Open("b"), Tag("t"), Inc("d/b")>>),
      File(<<Tag("t"), Inc("d/a"), Var("n")>>) }

DocsB2 ==
    { File(<<Txt("y")>>),
      File(<<Tag("u"), Var("n")>>) }

DocsDA2 ==
    { File(<<Inc(""), Txt("x")>>),
      File(<<Tag("u"), Inc("b")>>),
      File(<<Open(""), Close, Inc("b")>>) }

DocsDB2 ==
    { File(<<Txt("y"), Var("n")>>),
      File(<<Close>>),
      NoFile }

\* options.variables: the mapping from names to values, empty when the
\* option is absent or is {}.
NoVariables == [n \in {} |-> Str(<<>>)]

VariableSets ==
    { NoVariables,
      [n \in {"n"} |-> Str(<<Txt("y")>>)],
      [n \in {"n"} |-> Str(<<Var("m")>>)],
      [n \in {"n"} |-> Str(<<Inc("b")>>)] }

VariableSets2 ==
    { NoVariables,
      [n \in {"n"} |-> Str(<<Txt("y")>>)],
      [n \in {"n"} |-> Str(<<Var("m")>>)],
      [n \in {"m"} |-> Str(<<Txt("y")>>)],
      [n \in {"n"} |-> Obj(<< <<"id", "1">> >>)] }

\* The root calls: who calls, with which baseDir option and which path.
RootCalls ==
    { [callerFile |-> AbsPath(<<"t">>), baseDir |-> Undefined, relativePath |-> "a"],
      [callerFile |-> AbsPath(<<"t">>), baseDir |-> Undefined, relativePath |-> "d/a"],
      [callerFile |-> Undefined, baseDir |-> Undefined, relativePath |-> "a"],
      [callerFile |-> AbsPath(<<"t">>), baseDir |-> ParsePath("/d"), relativePath |-> "../a"],
      [callerFile |-> Undefined, baseDir |-> ParsePath("."), relativePath |-> "/a"] }

RootCalls2 ==
    RootCalls \cup
    { [callerFile |-> AbsPath(<<"t">>), baseDir |-> ParsePath("/d"), relativePath |-> "a"],
      [callerFile |-> AbsPath(<<"t">>), baseDir |-> Undefined, relativePath |-> "/d/a"],
      [callerFile |-> Undefined, baseDir |-> Undefined, relativePath |-> "/a"] }

\* The module that holds parseFML: what _getCallerFile (lines 167-195) finds
\* first on the stack of a recursive call.
ParserFile == AbsPath(<<"lib", "parser">>)

\* A parseFML activation at its first line: relativePath and
\* _currentlyProcessingPaths are its arguments; sid names the Set object
\* that set is the content of.
Call(relativePath, set, sid) ==
    [ arg |-> relativePath, set |-> set, sid |-> sid, path |-> <<>>,
      content |-> <<>>, tag |-> <<>>, src |-> "", ret |-> <<>>, pc |-> "entry",
      todo |-> <<>>, expect |-> "" ]

\* No earlier call.
NoPrior ==
    [calls |-> 0, status |-> "none", result |-> <<>>, err |-> NoErr, set |-> <<>>]

\* The extractor is not running.
NoExtraction ==
    [pc |-> "none", doc |-> <<>>, variables |-> NoVariables, role |-> 0,
     result |-> <<>>]

\* Mutant: the default value of _currentlyProcessingPaths is one Set object,
\* made once and used by every root call.
DefaultSetKept(left) == left

\* Line 116: _currentlyProcessingPaths = new Set<string>(), evaluated at each
\* call that does not pass the argument; left is the content of the Set the
\* root call before had.
DefaultSet(left) == <<>>

\* The state at the root call, for files, calls and variables drawn from the
\* given sets; an empty mapping is an absent option or the object {}.
InitFrom(docsA, docsB, docsDA, docsDB, calls, variableSets) ==
    /\ \E a \in docsA, b \in docsB, da \in docsDA, db \in docsDB :
           fs = (PA :> a) @@ (PB :> b) @@ (PDA :> da) @@ (PDB :> db)
    /\ \E r \in calls, v \in variableSets, s \in BOOLEAN :
           /\ s \/ v = NoVariables
           /\ env = [callerFile |-> r.callerFile, baseDir |-> r.baseDir,
                     relativePath |-> r.relativePath,
                     supplied |-> s, variables |-> v]
           /\ stack = <<Call(ParsePath(r.relativePath), DefaultSet(<<>>), 1)>>

Init ==
    /\ \/ InitFrom(DocsA, DocsB, DocsDA, DocsDB, RootCalls, VariableSets)
       \/ InitFrom(DocsA2, DocsB2, DocsDA2, DocsDB2, RootCalls2, VariableSets2)
    /\ err = NoErr
    /\ status = "running"
    /\ result = <<>>
    /\ visited = {}
    /\ revisited = FALSE
    /\ rendered = FALSE
    /\ prior = NoPrior
    /\ ext = NoExtraction

Top == stack[Len(stack)]
Depth == Len(stack)
Running == status = "running" /\ err = NoErr /\ stack # <<>>

SetTop(f) == [stack EXCEPT ![Len(stack)] = f]

\* Mutant: the recursive call is given the caller's Set object itself.
SameSetObject(sid, fresh) == sid

\* Line 147: new Set(_currentlyProcessingPaths) is an object of its own.
NewSetObject(sid, fresh) == fresh

\* Set.prototype.add and delete change the Set object: every activation that
\* holds the object sid sees the new content.
WriteSet(s, sid, set) ==
    [i \in DOMAIN s |-> IF s[i].sid = sid THEN [s[i] EXCEPT !.set = set] ELSE s[i]]

FileExists(p) == p \in DOMAIN fs /\ fs[p].exists

FileText(p) == IF p \in DOMAIN fs THEN fs[p].text ELSE <<>>

\* Mutant: a missing file reads as the empty string.
ReadFileNeverFails(p) == FALSE

\* fs.readFile rejects (line 131) when the file is not there.
ReadFileFails(p) == ~FileExists(p)

\* Mutant: the check looks at the including document only.
CycleDetectedParentOnly(set, p) == set # <<>> /\ set[Len(set)] = p

\* Mutant: the check is made against every path read so far.
CycleDetectedAnywhere(set, p) == SetHas(set, p) \/ p \in visited

\* _currentlyProcessingPaths.has(absoluteFilePath), line 125.
CycleDetected(set, p) == SetHas(set, p)

\* throw new Error(...): msg is the message's list of paths, path the path the
\* error is about, depth the activation that throws.
Throw(kind, msg, p) ==
    /\ err' = [kind |-> kind, msg |-> msg, path |-> p, depth |-> Depth]
    /\ UNCHANGED <<fs, env, stack, status, result, visited, revisited, rendered,
                   prior, ext>>

----------------------------------------------------------------------------
(* parseFML, lines 113-160, one action per stretch of code between awaits. *)

\* The src values of the include directives of a text, left to right (history
\* for the order of sibling includes: the text is the file as read).
RECURSIVE Directives(_)
Directives(c) ==
    IF ~HasMatch(c) THEN <<>>
    ELSE LET m == RegexExec(c) IN
         <<m.src>> \o Directives(SubSeq(c, m.index + Len(m.tag), Len(c)))

\* _getCallerFile(), lines 167-195: the first file on the call stack that is
\* not the parser's own; the root call sees its caller, a recursive call is
\* entered from the parser's own continuation and sees the parser's file or
\* the root caller's.
CallerFiles == IF Depth = 1 THEN {env.callerFile} ELSE {ParserFile, env.callerFile}

\* Line 119.
NoBaseDirectory(callerFile) == ~callerFile.def /\ ~env.baseDir.def

\* Mutant: the caller's directory is taken whenever the caller is known.
CallerDirOfCallerFirst(callerFile) ==
    IF callerFile.def THEN DirnameOf(callerFile) ELSE env.baseDir

\* Line 122: options?.baseDir || path.dirname(callerFile || '').
CallerDir(callerFile) ==
    IF env.baseDir.def THEN env.baseDir ELSE DirnameOf(callerFile)

\* Line 123.
AbsoluteFilePath(callerFile, relativePath) ==
    PathResolve(CallerDir(callerFile), relativePath)

\* Mutant: includes are resolved against the root document's directory.
DirectoryOfRootFile(f) == Dirname(stack[1].path)

\* Line 144.
DirectoryOfCurrentFile(f) == Dirname(f.path)

\* Line 145.
IncludedFilePath(f, src) ==
    PathResolve(AbsPath(DirectoryOfCurrentFile(f)), ParsePath(src))

\* Lines 118-129: the base directory, the absolute path, the cycle check.
Entry ==
    /\ Running
    /\ Top.pc = "entry"
    /\ \E callerFile \in CallerFiles :
           IF NoBaseDirectory(callerFile)
           THEN Throw("config", <<>>, <<>>)
           ELSE LET p == AbsoluteFilePath(callerFile, Top.arg) IN
                IF CycleDetected(Top.set, p)
                THEN Throw("circular", CyclePath(Top.set, p), p)
                ELSE /\ stack' = WriteSet(SetTop([Top EXCEPT !.path = p,
                                                             !.pc = "read"]),
                                          Top.sid, SetAdd(Top.set, p))
                     /\ UNCHANGED <<fs, env, err, status, result, visited,
                                    revisited, rendered, prior, ext>>

\* Line 131: await fs.readFile(absoluteFilePath, 'utf-8').
ReadFile ==
    /\ Running
    /\ Top.pc = "read"
    /\ IF ~ReadFileFails(Top.path)
       THEN /\ stack' = SetTop([Top EXCEPT !.content = FileText(Top.path),
                                           !.todo = Directives(FileText(Top.path)),
                                           !.pc = "scan"])
            /\ visited' = visited \cup {Top.path}
            /\ revisited' = (revisited \/ Top.path \in visited)
            /\ UNCHANGED <<fs, env, err, status, result, rendered, prior, ext>>
       ELSE Throw("enoent", <<Top.path>>, Top.path)

\* Lines 140-147: the loop finds a directive and calls parseFML on its target.
ScanMatch ==
    /\ Running
    /\ Top.pc = "scan"
    /\ HasMatch(Top.content)
    /\ LET m == RegexExec(Top.content)
           caller == [Top EXCEPT !.tag = m.tag,
                                 !.src = m.src,
                                 !.pc = "await",
                                 !.expect = IF Top.todo = <<>> THEN "" ELSE Head(Top.todo),
                                 !.todo = IF Top.todo = <<>> THEN <<>> ELSE Tail(Top.todo)]
       IN stack' = Append(SetTop(caller),
                          Call(AbsPath(IncludedFilePath(Top, m.src)),
                               SetCopy(Top.set),
                               NewSetObject(Top.sid, Depth + 1)))
    /\ UNCHANGED <<fs, env, err, status, result, visited, revisited, rendered,
                   prior, ext>>

\* Lines 140, 151-159: no directive is left; interpolate, delete the path from
\* the set, return.
ScanDone ==
    /\ Running
    /\ Top.pc = "scan"
    /\ ~HasMatch(Top.content)
    /\ stack' = WriteSet(SetTop([Top EXCEPT !.ret = Interpolate(Top.content, env),
                                            !.pc = "ret"]),
                         Top.sid, SetDelete(Top.set, Top.path))
    /\ rendered' = (rendered \/ VariablesGiven(env))
    /\ UNCHANGED <<fs, env, err, status, result, visited, revisited, prior, ext>>

\* Line 148 in the caller, or the root call's promise resolving.
Return ==
    /\ Running
    /\ Top.pc = "ret"
    /\ IF Depth = 1
       THEN /\ result' = Top.ret
            /\ status' = "returned"
            /\ stack' = <<>>
            /\ prior' = [prior EXCEPT !.set = Top.set]
       ELSE LET parent == stack[Depth - 1]
                new == StringReplace(parent.content, parent.tag, Top.ret)
            IN IF Len(new) > MaxLen
               THEN /\ status' = "cut"
                    /\ UNCHANGED <<stack, result, prior>>
               ELSE /\ stack' = Append(SubSeq(stack, 1, Depth - 2),
                                       [parent EXCEPT !.content = new, !.pc = "scan"])
                    /\ UNCHANGED <<status, result, prior>>
    /\ UNCHANGED <<fs, env, err, visited, revisited, rendered, ext>>

\* No try/catch in parseFML: the exception leaves one activation after the
\* other and rejects the root call's promise.
Unwind ==
    /\ status = "running"
    /\ err # NoErr
    /\ stack # <<>>
    /\ stack' = SubSeq(stack, 1, Depth - 1)
    /\ status' = IF Depth = 1 THEN "failed" ELSE status
    /\ prior' = IF Depth = 1 THEN [prior EXCEPT !.set = stack[1].set] ELSE prior
    /\ UNCHANGED <<fs, env, err, result, visited, revisited, rendered, ext>>

Next == Entry \/ ReadFile \/ ScanMatch \/ ScanDone \/ Return \/ Unwind

Spec == Init /\ [][Next]_vars

\* The event loop runs every continuation whose promise has settled.
LiveSpec == Spec /\ WF_vars(Next)

\* The caller calls parseFML once more, with the arguments of the call that
\* has ended and the files as they were: a root activation, its
\* _currentlyProcessingPaths the default value.
CallAgain ==
    /\ status \in {"returned", "failed"}
    /\ prior.calls = 0
    /\ prior' = [calls |-> 1, status |-> status, result |-> result,
                 err |-> err, set |-> prior.set]
    /\ stack' = <<Call(ParsePath(env.relativePath), DefaultSet(prior.set), 1)>>
    /\ err' = NoErr
    /\ status' = "running"
    /\ result' = <<>>
    /\ visited' = {}
    /\ revisited' = FALSE
    /\ rendered' = FALSE
    /\ UNCHANGED <<fs, env, ext>>

TwiceNext == Next \/ CallAgain

TwiceSpec == Init /\ [][TwiceNext]_vars

----------------------------------------------------------------------------
(* The message extractor, lines 44-74: the parseFML that returns the list  *)
(* of the role blocks' messages.  Its document is the object that          *)
(* parseStringPromise (explicitArray: false) and resolveIncludesInNode     *)
(* give for a file without include elements.                               *)

\* Longest document, in top-level elements, the extractor is given.
MaxBlocks == 3

\* A top-level element as xml2js gives it: kind "string" for an element with
\* text only, "mixed" for an object with the text under "_" (an element with
\* attributes), "children" for an object without "_".
Element(name, kind, text) == [name |-> name, kind |-> kind, text |-> text]

Elements ==
    { Element("system", "string", <<Txt("p")>>),
      Element("user", "string", <<Txt("q")>>),
      Element("user", "mixed", <<Var("n")>>),
      Element("user", "string", <<>>),
      Element("assistant", "string", <<Txt("r")>>),
      Element("assistant", "children", <<>>),
      Element("note", "string", <<Txt("p")>>) }

Documents == UNION {[1..n -> Elements] : n \in 0..MaxBlocks}

\* Line 49.
SupportedRoles == <<"system", "user", "assistant">>

\* Line 54: resolved[role], the elements of that name in document order (the
\* value itself when there is one, an array when there are several).
Blocks(doc, role) == SelectSeq(doc, LAMBDA e : e.name = role)

\* Line 55: !blocks, for no element of that name and for a single element
\* whose value is the empty string.
Falsy(blocks) ==
    \/ blocks = <<>>
    \/ Len(blocks) = 1 /\ blocks[1].kind = "string" /\ blocks[1].text = <<>>

\* Mustache's default escape, for the characters the values hold.
EscapeHtml(text) ==
    [i \in 1..Len(text) |->
        IF text[i] = Txt("&") THEN Txt("&amp;")
        ELSE IF text[i] = Txt("<") THEN Txt("&lt;")
        ELSE text[i]]

\* Lines 15-17: Mustache.render(content, variables), variables {} by default.
RECURSIVE OldInterpolate(_, _)
OldInterpolate(c, variables) ==
    IF c = <<>> THEN <<>>
    ELSE LET t == Head(c) IN
         (IF t[1] = "var"
          THEN (IF t[2] \in DOMAIN variables
                THEN EscapeHtml(StringOf(variables[t[2]]))
                ELSE <<>>)
          ELSE <<t>>) \o OldInterpolate(Tail(c), variables)

\* Lines 58-70: one message for each content that is a string or has "_".
RECURSIVE Messages(_, _, _)
Messages(role, contents, variables) ==
    IF contents = <<>> THEN <<>>
    ELSE (IF Head(contents).kind \in {"string", "mixed"}
          THEN <<[role |-> role,
                  content |-> OldInterpolate(Head(contents).text, variables)]>>
          ELSE <<>>) \o Messages(role, Tail(contents), variables)

\* The state in which only the extractor runs.
ExtractInit ==
    /\ fs = [p \in {PA, PB, PDA, PDB} |-> NoFile]
    /\ env = [callerFile |-> Undefined, baseDir |-> Undefined,
              relativePath |-> "a", supplied |-> FALSE, variables |-> NoVariables]
    /\ stack = <<>>
    /\ err = NoErr
    /\ status = "none"
    /\ result = <<>>
    /\ visited = {}
    /\ revisited = FALSE
    /\ rendered = FALSE
    /\ prior = NoPrior
    /\ \E doc \in Documents,
          variables \in {NoVariables, [n \in {"n"} |-> Str(<<Txt("&")>>)]} :
           ext = [pc |-> "roles", doc |-> doc, variables |-> variables,
                  role |-> 1, result |-> <<>>]

\* Lines 53-71: one turn of the loop over the supported roles.
ExtractRole ==
    /\ ext.pc = "roles"
    /\ ext.role <= Len(SupportedRoles)
    /\ LET role == SupportedRoles[ext.role]
           blocks == Blocks(ext.doc, role)
       IN ext' = [ext EXCEPT
                     !.role = @ + 1,
                     !.result = IF Falsy(blocks) THEN @
                                ELSE @ \o Messages(role, blocks, ext.variables)]
    /\ UNCHANGED <<fs, env, stack, err, status, result, visited, revisited,
                   rendered, prior>>

\* Line 73.
ExtractReturn ==
    /\ ext.pc = "roles"
    /\ ext.role > Len(SupportedRoles)
    /\ ext' = [ext EXCEPT !.pc = "done"]
    /\ UNCHANGED <<fs, env, stack, err, status, result, visited, revisited,
                   rendered, prior>>

ExtractNext == ExtractRole \/ ExtractReturn

ExtractSpec == ExtractInit /\ [][ExtractNext]_vars

----------------------------------------------------------------------------
(* Properties.                                                             *)

\* The paths of the activations below activation i: the documents on the
\* current descent, from the root document to the one that includes i's.
AncestorPaths(i) == {stack[j].path : j \in 1..(i - 1)}

\* The absolute path activation i's includer asked for: its directive's src
\* against the includer's own directory, an absolute src as it is.
IncludeTarget(i) ==
    LET parent == stack[i - 1]
        src == ParsePath(parent.src)
    IN IF src.abs THEN Normalize(src.segs)
       ELSE Normalize(Dirname(parent.path) \o src.segs)

\* An activation about to make its cycle check on an include target that is
\* on the current descent.
AtCyclicTarget ==
    /\ Running
    /\ Depth >= 2
    /\ Top.pc = "entry"
    /\ IncludeTarget(Depth) \in AncestorPaths(Depth)

\* C1: an include target that is already on the current descent (the
\* including document itself included) makes the resolution fail with the
\* circular-dependency error, and the target is not read: no activation that
\* has passed its cycle check has the path of one of its ancestors.
C1_CycleRejectedBeforeRead ==
    [][ /\ AtCyclicTarget =>
             /\ err'.kind = "circular"
             /\ err'.path = IncludeTarget(Depth)
             /\ visited' = visited
             /\ stack' = stack
        /\ \A i \in 1..Len(stack') :
               stack'[i].pc # "entry" => stack'[i].path \notin {stack'[j].path : j \in 1..(i - 1)}
      ]_vars

\* C1 witness: a cycle through two documents (A includes B, B includes A) has
\* been rejected at the third activation.
C1_Witness ==
    /\ err.kind = "circular"
    /\ err.depth = 3
    /\ Depth = 3
    /\ err.path = stack[1].path
    /\ stack[2].path # stack[1].path

\* C2: the circular-dependency error is raised only for a target that is an
\* ancestor on the current descent; a document read earlier in a finished
\* branch is read again and the resolution goes on.
C2_OnlyAncestorsAreCycles ==
    /\ (err.kind = "circular" /\ Depth = err.depth) =>
           err.path \in AncestorPaths(Depth)
    /\ (Running /\ Depth >= 2 /\ Top.pc = "entry"
        /\ IncludeTarget(Depth) \notin AncestorPaths(Depth)) =>
           ~CycleDetected(Top.set, IncludeTarget(Depth))

\* C2 witness: a resolution that read some document twice has returned.
C2_Witness == status = "returned" /\ revisited

\* C8: the path of every included document is its directive's src resolved
\* against the directory of the document that holds the directive; an
\* absolute src is the path itself.
C8_IncludeRelativeToIncluder ==
    \A i \in 2..Len(stack) :
        stack[i].pc # "entry" => stack[i].path = IncludeTarget(i)

\* C8 witness: at the second level of nesting, src "b" in /d/a is /d/b, while
\* the root document, the caller and the working directory would give
\* another path.
C8_Witness ==
    /\ Depth = 3
    /\ Top.pc = "scan"
    /\ stack[1].path = PA
    /\ stack[2].path = PDA
    /\ stack[2].src = "b"
    /\ Top.path = PDB
    /\ ~env.baseDir.def

\* C9: once a step has failed, nothing but the unwinding happens: the error
\* stays the first one, no file is read, no text is produced, and the root
\* call ends failed without a string; a missing target is such a failure.
C9_FailFast ==
    [][ /\ err # NoErr =>
             /\ err' = err
             /\ visited' = visited
             /\ rendered' = rendered
             /\ result' = <<>>
             /\ stack' = SubSeq(stack, 1, Len(stack) - 1)
             /\ status' \in {"running", "failed"}
        /\ (Running /\ Top.pc = "read" /\ ~FileExists(Top.path)) =>
               (err'.kind = "enoent" /\ err'.path = Top.path)
        /\ status' = "failed" => (err' # NoErr /\ result' = <<>> /\ stack' = <<>>)
        /\ status' = "returned" => err' = NoErr
      ]_vars

\* C9 witness: the root call has failed on an error raised two includes deep,
\* after another include had been expanded.
C9_Witness ==
    /\ status = "failed"
    /\ err.depth >= 3
    /\ Cardinality(visited) >= 3

\* C10: the circular-dependency error lists the paths of the documents on
\* the descent, root first, then the repeated path.
C10_CycleMessage ==
    (err.kind = "circular" /\ Depth = err.depth) =>
        err.msg = [j \in 1..Depth |->
                       IF j < Depth THEN stack[j].path ELSE IncludeTarget(Depth)]

\* C10 witness: /a and /b include each other; the message is a -> b -> a.
C10_Witness ==
    /\ err.kind = "circular"
    /\ err.msg = <<PA, PB, PA>>

----------------------------------------------------------------------------
(* The expansion the specification describes, as a function of the files.  *)

\* The text c of the document at path p with the span of each of its include
\* directives replaced, in place, by the expanded text of the directive's
\* target; anc holds the documents on the descent.
RECURSIVE ExpandedText(_, _, _)
ExpandedText(c, p, anc) ==
    IF ~HasMatch(c) THEN c
    ELSE LET m == RegexExec(c)
             src == ParsePath(m.src)
             t == IF src.abs THEN Normalize(src.segs)
                  ELSE Normalize(Dirname(p) \o src.segs)
             inner == IF t \in anc \/ ~FileExists(t) THEN <<>>
                      ELSE ExpandedText(FileText(t), t, anc \cup {t})
         IN SubSeq(c, 1, m.index - 1) \o inner
                \o ExpandedText(SubSeq(c, m.index + Len(m.tag), Len(c)), p, anc)

ExpandedDocument(i) ==
    ExpandedText(FileText(stack[i].path), stack[i].path,
                 AncestorPaths(i) \cup {stack[i].path})

\* C3: with a non-empty variable mapping the output is one interpolation
\* pass over the include-expanded text of the root document.
C3_SingleInterpolationPass ==
    (Len(stack) = 1 /\ stack[1].pc = "ret" /\ DOMAIN env.variables # {}) =>
        stack[1].ret = Render(ExpandedDocument(1), env.variables)

\* C4: once an interpolation has taken place no include directive is
\* resolved: no activation is entered any more.
C4_NoIncludeAfterInterpolation ==
    [][rendered => Len(stack') <= Len(stack)]_vars

\* C5: every resolve call ends, with a string or with an error (or leaves the
\* model at MaxLen).
C5_Terminates == <>(status # "running")

\* C6: without variables, what an activation returns is its document's text
\* with each include directive replaced in place by the expanded text of its
\* target, character for character.
C6_ExpansionIsSubstitution ==
    \A i \in 1..Len(stack) :
        (stack[i].pc = "ret" /\ DOMAIN env.variables = {}) =>
            stack[i].ret = ExpandedDocument(i)

\* C7: the k-th include an activation resolves is the k-th directive of its
\* document's original text.
C7_SiblingOrder ==
    \A i \in 1..Len(stack) :
        stack[i].pc = "await" => stack[i].src = stack[i].expect

----------------------------------------------------------------------------
(* The interpolation pass.                                                 *)

\* The positions of text c that hold a placeholder whose name is not a key.
MissingAt(c, variables) ==
    {i \in 1..Len(c) : c[i][1] = "var" /\ c[i][2] \notin DOMAIN variables}

\* Text c without the placeholders whose name is not a key.
RECURSIVE DropMissing(_, _)
DropMissing(c, variables) ==
    IF c = <<>> THEN <<>>
    ELSE (IF Head(c)[1] = "var" /\ Head(c)[2] \notin DOMAIN variables
          THEN <<>> ELSE <<Head(c)>>) \o DropMissing(Tail(c), variables)

\* C11 as stated: whatever mapping the caller supplies, the empty one too, a
\* placeholder whose name is not a key leaves nothing in what an activation
\* returns: the text is the one the document without these placeholders
\* gives, and no error is raised.
C11_MissingNameRendersEmpty ==
    \A i \in 1..Len(stack) :
        (stack[i].pc = "ret" /\ env.supplied) =>
            /\ stack[i].ret =
                   Render(DropMissing(stack[i].content, env.variables), env.variables)
            /\ err = NoErr

\* C11 amended: the same for every non-empty mapping; the empty mapping
\* skips the pass and keeps the placeholders.
C11_MissingNameRendersEmptyNonEmpty ==
    \A i \in 1..Len(stack) :
        (stack[i].pc = "ret" /\ VariablesGiven(env)) =>
            /\ stack[i].ret =
                   Render(DropMissing(stack[i].content, env.variables), env.variables)
            /\ err = NoErr

\* C11 witness: the root call has rendered, with a mapping that has the key
\* m only, a text that holds {{ n }}.
C11_Witness ==
    /\ Len(stack) = 1
    /\ stack[1].pc = "ret"
    /\ DOMAIN env.variables = {"m"}
    /\ MissingAt(stack[1].content, env.variables) # {}
    /\ Len(stack[1].ret) < Len(stack[1].content)

\* JSON.stringify(value, null, 2) of an object: one line per field, indented
\* by two spaces, between braces ({} when there is no field).
RECURSIVE JsonFields(_)
JsonFields(fields) ==
    IF fields = <<>> THEN <<>>
    ELSE <<Txt("\n"), Txt("  "), Txt("\""), Txt(Head(fields)[1]), Txt("\""),
           Txt(":"), Txt(" "), Txt(Head(fields)[2])>>
         \o (IF Tail(fields) = <<>> THEN <<Txt("\n")>> ELSE <<Txt(",")>>)
         \o JsonFields(Tail(fields))

JsonStringify(value) == <<Txt("{")>> \o JsonFields(value.fields) \o <<Txt("}")>>

\* The substitution of the compiled parser's escape function: the JSON of
\* an object, the string conversion of anything else.
EscapeJson(value) ==
    IF value.type = "object" THEN JsonStringify(value) ELSE value.text

RECURSIVE RenderJson(_, _)
RenderJson(c, variables) ==
    IF c = <<>> THEN <<>>
    ELSE LET t == Head(c) IN
         (IF t[1] = "var"
          THEN (IF t[2] \in DOMAIN variables
                THEN EscapeJson(variables[t[2]])
                ELSE <<>>)
          ELSE <<t>>) \o RenderJson(Tail(c), variables)

\* C12: the pass puts, for a placeholder, the pretty-printed JSON (2-space
\* indentation) of an object value and the plain string of a scalar value.
C12_StructuredValueAsJson ==
    \A i \in 1..Len(stack) :
        (stack[i].pc = "ret" /\ VariablesGiven(env)) =>
            stack[i].ret = RenderJson(stack[i].content, env.variables)

----------------------------------------------------------------------------
(* Include tags without a src value, and other tags.                       *)

\* The positions of text c that hold an include tag whose src is empty or
\* missing.
MalformedAt(c) ==
    {i \in 1..Len(c) : c[i][1] \in {"inc", "open"} /\ c[i][2] = ""}

\* C13: a document with an include tag whose src is empty or missing makes
\* the resolution fail: no activation ends its loop and returns a text that
\* still holds such a tag.
C13_MalformedDirectiveFails ==
    \A i \in 1..Len(stack) :
        stack[i].pc = "ret" =>
            (MalformedAt(stack[i].content) = {} /\ MalformedAt(stack[i].ret) = {})

\* The number of occurrences of token t in text c.
RECURSIVE Count(_, _)
Count(t, c) ==
    IF c = <<>> THEN 0
    ELSE (IF Head(c) = t THEN 1 ELSE 0) + Count(t, Tail(c))

\* The tags, other than include tags, of text c.
TagsOf(c) == {c[i] : i \in {j \in 1..Len(c) : c[j][1] = "tag"}}

\* C14: every tag other than an include directive, of the root document or
\* of an included one, is in the output as it is in its document: what an
\* activation returns holds each tag of the in-place expansion of its
\* document, as many times.
C14_OtherTagsPreserved ==
    \A i \in 1..Len(stack) :
        stack[i].pc = "ret" =>
            \A t \in TagsOf(ExpandedDocument(i)) :
                Count(t, stack[i].ret) >= Count(t, ExpandedDocument(i))

\* C15: without variables no activation, the root call or an include, runs
\* the interpolation: what it returns is its text as the include loop left
\* it, each placeholder in its place.
C15_NoVariablesNoInterpolation ==
    ~VariablesGiven(env) =>
        /\ ~rendered
        /\ \A i \in 1..Len(stack) :
               stack[i].pc = "ret" => stack[i].ret = stack[i].content

\* C15 witness: called without variables, the root call returns a text with
\* a placeholder that came from an included document.
C15_Witness ==
    /\ ~env.supplied
    /\ Len(stack) = 1
    /\ stack[1].pc = "ret"
    /\ Count(Var("n"), stack[1].ret) > Count(Var("n"), FileText(stack[1].path))

----------------------------------------------------------------------------
(* The message extractor.                                                  *)

\* The messages of a document's role blocks in the order of the blocks.
RECURSIVE MessagesInDocumentOrder(_, _)
MessagesInDocumentOrder(doc, variables) ==
    IF doc = <<>> THEN <<>>
    ELSE (IF \E k \in 1..Len(SupportedRoles) : SupportedRoles[k] = Head(doc).name
          THEN Messages(Head(doc).name, <<Head(doc)>>, variables)
          ELSE <<>>) \o MessagesInDocumentOrder(Tail(doc), variables)

\* C16: the extractor returns the messages of the role blocks in the order
\* of the blocks in the document, whatever their roles (stated for the
\* documents whose blocks all have text).
C16_MessagesInDocumentOrder ==
    (ext.pc = "done" /\ \A k \in 1..Len(ext.doc) : ext.doc[k].text # <<>>) =>
        ext.result = MessagesInDocumentOrder(ext.doc, ext.variables)

----------------------------------------------------------------------------
(* The root call's path.                                                   *)

\* The directory a relative root path is meant to be taken from: baseDir
\* (itself taken from the working directory when relative) when there is
\* one, the directory of the caller's file otherwise.
RootBase ==
    IF env.baseDir.def
    THEN (IF env.baseDir.abs THEN <<>> ELSE Cwd) \o env.baseDir.segs
    ELSE Dirname(env.callerFile.segs)

RootPathExpected ==
    LET rel == ParsePath(env.relativePath) IN
    Normalize(IF rel.abs THEN rel.segs ELSE RootBase \o rel.segs)

BaseUnknown == ~env.callerFile.def /\ ~env.baseDir.def

----------------------------------------------------------------------------
(* Two calls with the same arguments.                                      *)

\* C18: a second call with the same document, files and variables ends as
\* the first did, with the same string or the same error; it starts from
\* an empty set of paths, whatever the first call left in its own.
C18_SameCallSameOutcome ==
    prior.calls = 1 =>
        /\ (stack # <<>> /\ stack[1].pc = "entry") => stack[1].set = <<>>
        /\ status \in {"returned", "failed"} =>
               /\ status = prior.status
               /\ result = prior.result
               /\ err = prior.err

\* C18 witness: the first call failed on a missing file two levels down and
\* left paths in its set; the second call has ended.
C18_Witness ==
    /\ prior.calls = 1
    /\ prior.err.kind = "enoent"
    /\ prior.err.depth >= 2
    /\ prior.set # <<>>
    /\ status = "failed"

----------------------------------------------------------------------------
(* The set of paths of an activation and of its includes.                  *)

\* C19: an include is given a Set object of its own with the content of its
\* parent's; no step changes the set of an activation that has an include
\* in flight, whether the include goes on, returns or fails, and from its
\* own add to the end of its loop an activation's set stays as it is, so
\* each of its includes starts from the same paths.
C19_IncludeKeepsParentChain ==
    [][ /\ \A i \in 1..Len(stack) :
              /\ (i < Len(stack) /\ i <= Len(stack')) =>
                     stack'[i].set = stack[i].set
              /\ (i <= Len(stack') /\ stack[i].pc \in {"scan", "await"}
                  /\ stack'[i].pc \in {"scan", "await"}) =>
                     stack'[i].set = stack[i].set
        /\ Len(stack') = Len(stack) + 1 =>
              /\ stack'[Len(stack')].set = stack[Len(stack)].set
              /\ \A i \in 1..Len(stack) : stack'[Len(stack')].sid # stack[i].sid
      ]_vars

\* C19 witness: the root activation has had one include expanded and its
\* next include starts, with the set the first one started with.
C19_Witness ==
    /\ Depth = 2
    /\ Top.pc = "entry"
    /\ stack[1].content # FileText(stack[1].path)
    /\ Top.set = <<stack[1].path>>
    /\ Cardinality(visited) >= 2

\* C20: from its add to the end of its loop, the set of an activation is the
\* list, without repetition, of the paths of the activations in flight from
\* the root call down to itself, in that order; before its add it is the
\* list of the paths of the activations above it.
C20_ChainIsInFlightPaths ==
    \A i \in 1..Len(stack) :
        /\ stack[i].pc \in {"read", "scan", "await"} =>
               /\ stack[i].set = [j \in 1..i |-> stack[j].path]
               /\ \A j, k \in 1..i : stack[j].path = stack[k].path => j = k
        /\ stack[i].pc = "entry" =>
               stack[i].set = [j \in 1..(i - 1) |-> stack[j].path]

\* C20 witness: three activations in flight after another branch has
\* finished: more documents have been read than the set holds paths.
C20_Witness ==
    /\ Depth = 3
    /\ Top.pc = "scan"
    /\ Len(Top.set) = 3
    /\ Cardinality(visited) > 3

====
